---- MODULE Spec2Model ----
(***************************************************************************)
(* Model of the Obsidian "dialogue mode" plugin (src/main.ts).             *)
(*                                                                         *)
(*   - processTextForDialogue, the quotation span classifier, as a scan    *)
(*     state advanced one character at a time (ScanChar, FlushRest);       *)
(*   - highlightDialog, the static-render driver over the text leaves of   *)
(*     a rendered element, with the markdown post processor that gates it  *)
(*     and getTextNodes, which collects the leaves of the element's tree;  *)
(*   - DialogueEditorExtension.buildDecorations, the viewport driver;      *)
(*   - the toggle command, the settings-tab toggle and the editor views'   *)
(*     update handler.                                                     *)
(*                                                                         *)
(* A character is a one-element token.  TLA+ strings are ASCII, so the     *)
(* curly quotation marks are written by their HTML entity names.  A text   *)
(* is a sequence of characters; offsets are 0-based as in the source, so   *)
(* the character at offset p of text t is t[p + 1].                        *)
(***************************************************************************)
EXTENDS Integers, Sequences, FiniteSets

VARIABLES
    \* ---- processTextForDialogue (one call) ----
    text,             \* parameter text
    startInDialogue,  \* parameter inDialog as passed in
    inDialog,         \* local inDialog (the parameter, reassigned by the scan)
    buffer,           \* local buffer
    result,           \* local result
    i,                \* loop index
    cpc,              \* position in the call: "loop" | "done"
    \* ---- highlightDialog (render passes over one element) ----
    element,          \* the rendered element: per collected leaf, the leaves now in its place
    textNodes,        \* getTextNodes(element) of the pass in progress
    nodeIdx,          \* forEach index
    hlInDialog,       \* highlightDialog's local inDialog
    calls,            \* one record per forEach iteration of the current pass
    prevSpans,        \* span sequence produced by the previous pass
    pass,             \* number of completed render passes
    spc,              \* position: "idle" | "forEach"
    \* ---- buildDecorations (one call) ----
    doc,              \* view.state.doc
    visibleRanges,    \* view.visibleRanges
    fadeEnabled,      \* plugin.settings.fadeEnabled
    rangeIdx,         \* index of the visible range being walked
    pos,              \* loop variable pos
    builder,          \* local builder
    quoteStack,       \* local quoteStack
    bufferStart,      \* local bufferStart
    lineAtLog,        \* offsets handed to doc.lineAt so far
    decorations,      \* the returned DecorationSet
    bpc,              \* position: "start" | "ranges" | "lines" | "done" | "thrown"
    \* ---- plugin with editor views ----
    toggleChanged,    \* plugin.toggleChanged
    viewDoc,          \* per view: its document
    viewRanges,       \* per view: its visible ranges
    viewDecorations,  \* per view: DialogueEditorExtension.decorations
    updatedSinceFlip, \* per view: an update ran since fadeEnabled last flipped
    \* ---- getTextNodes (one call) ----
    dom,              \* the tree under the parameter element
    nodesToVisit,     \* local nodesToVisit
    foundNodes,       \* local textNodes
    tpc               \* position: "start" | "while" | "done"

classifyVars == <<text, startInDialogue, inDialog, buffer, result, i, cpc>>
staticVars   == <<element, textNodes, nodeIdx, hlInDialog, calls, prevSpans, pass, spc>>
buildVars    == <<doc, visibleRanges, rangeIdx, pos, builder, quoteStack,
                  bufferStart, lineAtLog, decorations, bpc>>
pluginVars   == <<toggleChanged, viewDoc, viewRanges, viewDecorations, updatedSinceFlip>>
treeVars     == <<dom, nodesToVisit, foundNodes, tpc>>
vars == <<classifyVars, staticVars, buildVars, fadeEnabled, pluginVars, treeVars>>

----------------------------------------------------------------------------
(* Characters *)

StraightDouble == "\""
StraightSingle == "'"
LeftDouble     == "ldquo"
RightDouble    == "rdquo"
LeftSingle     == "lsquo"
RightSingle    == "rsquo"
Space          == " "
Period         == "."
Comma          == ","
Letter         == "a"
LineBreak      == "\n"

\* faulty variant: the straight single quote is an open glyph too
openQuotes_WithStraightSingle == <<"\"", "ldquo", "lsquo", "'">>

\* const openQuotes / closeQuotes: paired by position
openQuotes  == <<StraightDouble, LeftDouble, LeftSingle>>
closeQuotes == <<StraightDouble, RightDouble, RightSingle>>

Range(s) == {s[k] : k \in DOMAIN s}

\* Array.prototype.includes
includes(arr, x) == x \in Range(arr)

\* Array.prototype.indexOf: the 0-based index of x, or -1
NotFound == -1
indexOf(arr, x) ==
    IF x \in Range(arr)
    THEN (CHOOSE k \in DOMAIN arr : arr[k] = x /\ \A j \in 1..(k - 1) : arr[j] /= x) - 1
    ELSE NotFound

\* all sequences over S of length at most n
SeqUpTo(S, n) == UNION {[1..k -> S] : k \in 0..n}

RECURSIVE Concat(_)
\* concatenation of a sequence of sequences
Concat(ss) == IF ss = <<>> THEN <<>> ELSE Head(ss) \o Concat(Tail(ss))

----------------------------------------------------------------------------
(* processTextForDialogue *)

DialogueClass    == "dialogue-text"
NonDialogueClass == "non-dialogue-text"

\* a <span class=className> holding one text node
Span(className, txt) == [className |-> className, text |-> txt]

\* faulty variant: the end of the chunk is not a boundary
ClosesAt_NoEndOfChunk(txt, k) ==
    /\ includes(closeQuotes, txt[k + 1])
    /\ k < Len(txt) - 1
    /\ \/ txt[k + 2] = Space
       \/ txt[k + 2] = Period
       \/ txt[k + 2] = Comma

\* the condition under which a close glyph at index k ends the quotation
ClosesAt(txt, k) ==
    /\ includes(closeQuotes, txt[k + 1])
    /\ \/ k = Len(txt) - 1
       \/ txt[k + 2] = Space
       \/ txt[k + 2] = Period
       \/ txt[k + 2] = Comma

\* faulty variant: every close glyph ends the quotation, whatever follows it
ScanChar_NoBoundary(st, txt) ==
    LET char == txt[st.i + 1] IN
    IF st.inDialog
    THEN IF includes(closeQuotes, char)
         THEN [i |-> st.i + 1, inDialog |-> FALSE, buffer |-> <<>>,
               result |-> Append(st.result, Span(DialogueClass, Append(st.buffer, char)))]
         ELSE [st EXCEPT !.i = st.i + 1, !.buffer = Append(st.buffer, char)]
    ELSE IF includes(openQuotes, char)
         THEN [i |-> st.i + 1, inDialog |-> TRUE, buffer |-> <<char>>,
               result |-> IF st.buffer /= <<>>
                          THEN Append(st.result, Span(NonDialogueClass, st.buffer))
                          ELSE st.result]
         ELSE [st EXCEPT !.i = st.i + 1, !.buffer = Append(st.buffer, char)]

\* faulty variant: the open glyph is not put into the new dialogue buffer
ScanChar_DropOpen(st, txt) ==
    LET char == txt[st.i + 1] IN
    IF st.inDialog
    THEN IF ClosesAt(txt, st.i)
         THEN [i |-> st.i + 1, inDialog |-> FALSE, buffer |-> <<>>,
               result |-> Append(st.result, Span(DialogueClass, Append(st.buffer, char)))]
         ELSE [st EXCEPT !.i = st.i + 1, !.buffer = Append(st.buffer, char)]
    ELSE IF includes(openQuotes, char)
         THEN [i |-> st.i + 1, inDialog |-> TRUE, buffer |-> <<>>,
               result |-> IF st.buffer /= <<>>
                          THEN Append(st.result, Span(NonDialogueClass, st.buffer))
                          ELSE st.result]
         ELSE [st EXCEPT !.i = st.i + 1, !.buffer = Append(st.buffer, char)]

\* one iteration of the for loop: st = [i, inDialog, buffer, result]
ScanChar(st, txt) ==
    LET char == txt[st.i + 1] IN
    IF st.inDialog
    THEN IF ClosesAt(txt, st.i)
         THEN [i |-> st.i + 1, inDialog |-> FALSE, buffer |-> <<>>,
               result |-> Append(st.result, Span(DialogueClass, Append(st.buffer, char)))]
         ELSE [st EXCEPT !.i = st.i + 1, !.buffer = Append(st.buffer, char)]
    ELSE IF includes(openQuotes, char)
         THEN [i |-> st.i + 1, inDialog |-> TRUE, buffer |-> <<char>>,
               result |-> IF st.buffer /= <<>>
                          THEN Append(st.result, Span(NonDialogueClass, st.buffer))
                          ELSE st.result]
         ELSE [st EXCEPT !.i = st.i + 1, !.buffer = Append(st.buffer, char)]

\* faulty variant: the flush also leaves dialogue mode
FlushRest_ResetFlag(st) ==
    IF st.buffer /= <<>>
    THEN [st EXCEPT !.buffer = <<>>, !.inDialog = FALSE,
                    !.result = Append(st.result,
                        Span(IF st.inDialog THEN DialogueClass ELSE NonDialogueClass,
                             st.buffer))]
    ELSE st

\* the code after the loop: flush what is left in the buffer
FlushRest(st) ==
    IF st.buffer /= <<>>
    THEN [st EXCEPT !.buffer = <<>>,
                    !.result = Append(st.result,
                        Span(IF st.inDialog THEN DialogueClass ELSE NonDialogueClass,
                             st.buffer))]
    ELSE st

RECURSIVE ScanFrom(_, _)
\* the for loop from the scan state st to the end of txt
ScanFrom(st, txt) ==
    IF st.i < Len(txt) THEN ScanFrom(ScanChar(st, txt), txt) ELSE st

\* the whole call: { text: result, inDialog: inDialog }
processTextForDialogue(txt, flag) ==
    LET st == FlushRest(ScanFrom([i |-> 0, inDialog |-> flag,
                                  buffer |-> <<>>, result |-> <<>>], txt))
    IN [text |-> st.result, inDialog |-> st.inDialog]

\* the texts of a span sequence
SpanTexts(spans) == [k \in DOMAIN spans |-> spans[k].text]

----------------------------------------------------------------------------
(* highlightDialog *)

\* String(span) of an HTMLSpanElement, as Array.prototype.join converts it
ObjectString ==
    <<"[", "o", "b", "j", "e", "c", "t", " ", "H", "T", "M", "L",
      "S", "p", "a", "n", "E", "l", "e", "m", "e", "n", "t", "]">>

\* faulty variant: the join concatenates the text content of the spans
join_TextContent(arr) == Concat(SpanTexts(arr))

\* newContent.text.join(''): the array's elements are span elements
join(arr) == Concat([k \in DOMAIN arr |-> ObjectString])

\* a Text node: its nodeValue, whether it has a parentNode, and the class of
\* the span a previous pass put around it ("" when there is none)
TextNode(nodeValue, parentNode, className) ==
    [nodeValue |-> nodeValue, parentNode |-> parentNode, className |-> className]

\* createWrapper(newContent.text), seen as the text leaves it holds: one per span
createWrapper(content) ==
    [k \in DOMAIN content |-> TextNode(content[k].text, TRUE, content[k].className)]

\* faulty variant: a leaf without a parent does not advance the flag
forEachBody_SkipKeepsFlag(node, flag) ==
    LET newContent == processTextForDialogue(node.nodeValue, flag)
        replaced   == join(newContent.text) /= node.nodeValue /\ node.parentNode
    IN [inDialog |-> IF node.parentNode THEN newContent.inDialog ELSE flag,
        spans    |-> newContent.text,
        replaced |-> replaced]

\* the body of textNodes.forEach for one node, entered with inDialog = flag
forEachBody(node, flag) ==
    LET newContent == processTextForDialogue(node.nodeValue, flag)
    IN [inDialog |-> newContent.inDialog,
        spans    |-> newContent.text,
        replaced |-> join(newContent.text) /= node.nodeValue /\ node.parentNode]

\* getTextNodes over the element's leaves, in document order
getTextNodes(el) == Concat(el)

\* the spans of one pass, leaf after leaf
PassSpans(cs) == Concat([k \in DOMAIN cs |-> cs[k].spans])

----------------------------------------------------------------------------
(* DialogueEditorExtension.buildDecorations *)

\* the characters of s at offsets a .. b-1
Slice(s, a, b) == [k \in 1..(b - a) |-> s[a + k]]

\* view.state.doc.lineAt(p): the line holding offset p, line break excluded
lineAt(d, p) ==
    LET from == CHOOSE f \in 0..p :
                    /\ f = 0 \/ d[f] = LineBreak
                    /\ \A g \in (f + 1)..p : d[g] /= LineBreak
        to   == CHOOSE t \in p..Len(d) :
                    /\ t = Len(d) \/ d[t + 1] = LineBreak
                    /\ \A g \in (p + 1)..t : d[g] /= LineBreak
    IN [from |-> from, to |-> to, text |-> Slice(d, from, to)]

\* Decoration.mark({ class }).range(from, to)
MarkRange(className, from, to) == [className |-> className, from |-> from, to |-> to]

\* faulty variant: the close branch is tried before the open branch
ScanLineChar_CloseFirst(st, line, k) ==
    LET char       == line.text[k + 1]
        openIndex  == indexOf(openQuotes, char)
        closeIndex == indexOf(closeQuotes, char)
        here       == line.from + k
    IN
    IF /\ closeIndex /= NotFound
       /\ Len(st.quoteStack) > 0
       /\ indexOf(openQuotes, st.quoteStack[Len(st.quoteStack)].quote) = closeIndex
    THEN LET opening == st.quoteStack[Len(st.quoteStack)] IN
         IF opening.pos >= here + 1
         THEN [st EXCEPT
                 !.quoteStack = SubSeq(st.quoteStack, 1, Len(st.quoteStack) - 1),
                 !.failed     = TRUE]
         ELSE [st EXCEPT
                 !.quoteStack  = SubSeq(st.quoteStack, 1, Len(st.quoteStack) - 1),
                 !.builder     = Append(st.builder,
                                        MarkRange(DialogueClass, opening.pos, here + 1)),
                 !.bufferStart = here + 1]
    ELSE IF openIndex /= NotFound
    THEN [st EXCEPT
            !.quoteStack  = Append(st.quoteStack, [quote |-> char, pos |-> here]),
            !.builder     = IF st.bufferStart < here
                            THEN Append(st.builder,
                                        MarkRange(NonDialogueClass, st.bufferStart, here))
                            ELSE st.builder,
            !.bufferStart = here + 1]
    ELSE st

\* one iteration of the loop over the line's characters (lines 250-269);
\* st = [builder, quoteStack, bufferStart, failed].  A mark range must not be
\* empty: range(from, to) with from >= to throws, which ends the call (failed).
ScanLineChar(st, line, k) ==
    LET char       == line.text[k + 1]
        openIndex  == indexOf(openQuotes, char)
        closeIndex == indexOf(closeQuotes, char)
        here       == line.from + k
    IN
    IF openIndex /= NotFound
    THEN [st EXCEPT
            !.quoteStack  = Append(st.quoteStack, [quote |-> char, pos |-> here]),
            !.builder     = IF st.bufferStart < here
                            THEN Append(st.builder,
                                        MarkRange(NonDialogueClass, st.bufferStart, here))
                            ELSE st.builder,
            !.bufferStart = here + 1]
    ELSE IF /\ closeIndex /= NotFound
            /\ Len(st.quoteStack) > 0
            /\ indexOf(openQuotes, st.quoteStack[Len(st.quoteStack)].quote) = closeIndex
    THEN LET opening == st.quoteStack[Len(st.quoteStack)] IN
         IF opening.pos >= here + 1
         THEN [st EXCEPT
                 !.quoteStack = SubSeq(st.quoteStack, 1, Len(st.quoteStack) - 1),
                 !.failed     = TRUE]
         ELSE [st EXCEPT
                 !.quoteStack  = SubSeq(st.quoteStack, 1, Len(st.quoteStack) - 1),
                 !.builder     = Append(st.builder,
                                        MarkRange(DialogueClass, opening.pos, here + 1)),
                 !.bufferStart = here + 1]
    ELSE st

RECURSIVE ScanLineFrom(_, _, _)
\* the loop over the line's characters from index k on
ScanLineFrom(st, line, k) ==
    IF k < Len(line.text) /\ ~st.failed
    THEN ScanLineFrom(ScanLineChar(st, line, k), line, k + 1)
    ELSE st

\* the body of the loop over the lines of a range (lines 246-273)
ScanLine(st, line) ==
    LET s1 == ScanLineFrom([st EXCEPT !.bufferStart = line.from], line, 0) IN
    IF ~s1.failed /\ s1.bufferStart < line.to
    THEN [s1 EXCEPT !.builder = Append(s1.builder,
                                       MarkRange(NonDialogueClass, s1.bufferStart, line.to))]
    ELSE s1

RECURSIVE SortedInsert(_, _)
\* r put into the sequence s, sorted by from, after the ranges that do not start later
SortedInsert(s, r) ==
    IF s = <<>> THEN <<r>>
    ELSE IF s[Len(s)].from <= r.from THEN Append(s, r)
    ELSE Append(SortedInsert(SubSeq(s, 1, Len(s) - 1), r), s[Len(s)])

RECURSIVE SortRanges(_)
\* Decoration.set(builder, true): the ranges sorted by their start, stably
SortRanges(b) ==
    IF b = <<>> THEN <<>>
    ELSE SortedInsert(SortRanges(SubSeq(b, 1, Len(b) - 1)), b[Len(b)])

RECURSIVE WalkLines(_, _, _, _)
\* for (let pos = from; pos <= to;) from offset p on
WalkLines(st, d, p, to) ==
    IF p <= to /\ ~st.failed
    THEN LET line == lineAt(d, p) IN WalkLines(ScanLine(st, line), d, line.to + 1, to)
    ELSE st

RECURSIVE WalkRanges(_, _, _, _)
\* for (const { from, to } of view.visibleRanges) from range k on
WalkRanges(st, d, vr, k) ==
    IF k <= Len(vr) /\ ~st.failed
    THEN WalkRanges(WalkLines(st, d, vr[k].from, vr[k].to), d, vr, k + 1)
    ELSE st

\* the value an editor view keeps when buildDecorations throws
Thrown == <<"RangeError">>

\* the whole call, for a view showing d with visible ranges vr
buildDecorations(d, vr, enabled) ==
    IF ~enabled THEN <<>>
    ELSE LET st == WalkRanges([builder |-> <<>>, quoteStack |-> <<>>,
                               bufferStart |-> 0, failed |-> FALSE], d, vr, 1)
         IN IF st.failed THEN Thrown ELSE SortRanges(st.builder)

----------------------------------------------------------------------------
(* Variables a specification does not use stay at these values *)

ClassifyIdle ==
    /\ text = <<>> /\ startInDialogue = FALSE /\ inDialog = FALSE
    /\ buffer = <<>> /\ result = <<>> /\ i = 0 /\ cpc = "idle"

StaticIdle ==
    /\ element = <<>> /\ textNodes = <<>> /\ nodeIdx = 0 /\ hlInDialog = FALSE
    /\ calls = <<>> /\ prevSpans = <<>> /\ pass = 0 /\ spc = "off"

BuildIdle ==
    /\ doc = <<>> /\ visibleRanges = <<>> /\ rangeIdx = 0 /\ pos = 0
    /\ builder = <<>> /\ quoteStack = <<>> /\ bufferStart = 0
    /\ lineAtLog = <<>> /\ decorations = <<>> /\ bpc = "off"

PluginIdle ==
    /\ toggleChanged = FALSE /\ viewDoc = <<>> /\ viewRanges = <<>>
    /\ viewDecorations = <<>>
    /\ updatedSinceFlip = <<>>

TreeIdle ==
    /\ dom = <<>> /\ nodesToVisit = <<>> /\ foundNodes = <<>> /\ tpc = "off"

----------------------------------------------------------------------------
(* Specification SpecClassify: one call of processTextForDialogue, for     *)
(* every chunk of at most MaxChunkLen characters and both incoming flags.  *)

MaxChunkLen == 4

Alphabet == {StraightDouble, StraightSingle, LeftDouble, RightDouble,
             LeftSingle, RightSingle, Space, Period, Comma, Letter}

Chunks == SeqUpTo(Alphabet, MaxChunkLen)

scanState == [i |-> i, inDialog |-> inDialog, buffer |-> buffer, result |-> result]

InitClassify ==
    /\ text \in Chunks
    /\ startInDialogue \in BOOLEAN
    /\ inDialog = startInDialogue
    /\ buffer = <<>> /\ result = <<>> /\ i = 0
    /\ cpc = "loop"
    /\ StaticIdle /\ BuildIdle /\ PluginIdle /\ TreeIdle /\ fadeEnabled = TRUE

\* one iteration of the for loop (lines 125-153)
LoopStep ==
    /\ cpc = "loop"
    /\ i < Len(text)
    /\ LET st == ScanChar(scanState, text) IN
         /\ i' = st.i
         /\ inDialog' = st.inDialog
         /\ buffer' = st.buffer
         /\ result' = st.result
    /\ UNCHANGED <<text, startInDialogue, cpc>>
    /\ UNCHANGED <<staticVars, buildVars, fadeEnabled, pluginVars, treeVars>>

\* loop exit, the final flush and the return (lines 155-169)
Return ==
    /\ cpc = "loop"
    /\ i >= Len(text)
    /\ LET st == FlushRest(scanState) IN
         /\ inDialog' = st.inDialog
         /\ buffer' = st.buffer
         /\ result' = st.result
    /\ cpc' = "done"
    /\ UNCHANGED <<text, startInDialogue, i>>
    /\ UNCHANGED <<staticVars, buildVars, fadeEnabled, pluginVars, treeVars>>

NextClassify == LoopStep \/ Return

SpecClassify == InitClassify /\ [][NextClassify]_vars

\* C1 (reconstruction): when the call returns, the texts of the returned
\* spans, concatenated in order, are exactly the chunk that was passed in.
C1_Reconstruction ==
    cpc = "done" => Concat(SpanTexts(result)) = text

\* a call has returned three or more spans
C1_Witness == cpc = "done" /\ Len(result) >= 3

\* C2 (boundary heuristic): in dialogue mode, a close glyph at index i ends the
\* quotation - mode flips to non-dialogue and the buffer, glyph included, is
\* flushed as a dialogue span - exactly when i is the last index or the next
\* character is a space, a period or a comma; otherwise the glyph is kept as
\* dialogue text, nothing is flushed and the quotation stays open.
C2_BoundaryHeuristic ==
    [][(cpc = "loop" /\ i < Len(text) /\ inDialog /\ text[i + 1] \in Range(closeQuotes))
        => IF i = Len(text) - 1 \/ text[i + 2] \in {Space, Period, Comma}
           THEN /\ inDialog' = FALSE
                /\ buffer' = <<>>
                /\ result' = Append(result, Span(DialogueClass, Append(buffer, text[i + 1])))
           ELSE /\ inDialog' = TRUE
                /\ buffer' = Append(buffer, text[i + 1])
                /\ result' = result]_vars

\* the scan has just closed a quotation at a close glyph followed by a comma
C2_Witness ==
    /\ cpc = "loop" /\ i >= 1 /\ i < Len(text)
    /\ text[i] \in Range(closeQuotes) /\ text[i + 1] = Comma
    /\ ~inDialog /\ buffer = <<>>
    /\ result /= <<>> /\ result[Len(result)].className = DialogueClass

\* C7 (maximal runs): in the returned span sequence no span is empty and no
\* two adjacent spans have the same class.
C7_MaximalRuns ==
    cpc = "done" =>
        \A k \in DOMAIN result :
            /\ result[k].text /= <<>>
            /\ k < Len(result) => result[k].className /= result[k + 1].className

\* a call entered in dialogue mode has returned dialogue, narration, dialogue
C7_Witness ==
    /\ cpc = "done" /\ startInDialogue /\ Len(result) = 3
    /\ result[1].className = DialogueClass
    /\ result[2].className = NonDialogueClass

\* C11 as claimed: the straight single quote and the straight double quote
\* are both open and close glyphs: met in non-dialogue mode either opens a
\* dialogue span, met in dialogue mode before a boundary either closes it.
C11_SelfPairing ==
    [][(cpc = "loop" /\ i < Len(text) /\ text[i + 1] \in {StraightSingle, StraightDouble})
        => IF ~inDialog
           THEN inDialog' = TRUE /\ buffer' = <<text[i + 1]>>
           ELSE (i = Len(text) - 1 \/ text[i + 2] \in {Space, Period, Comma})
                    => (inDialog' = FALSE /\ buffer' = <<>>)]_vars

\* C11 as amended: the straight double quote is both an open and a close
\* glyph (it opens a dialogue span in non-dialogue mode and closes it in
\* dialogue mode before a boundary); the straight single quote is neither: in
\* either mode it is appended to the buffer as ordinary text, the mode stays
\* as it is and nothing is flushed.
C11_OnlyDoubleSelfPairs ==
    [][(cpc = "loop" /\ i < Len(text))
        => /\ text[i + 1] = StraightDouble =>
                IF ~inDialog
                THEN inDialog' = TRUE /\ buffer' = <<StraightDouble>>
                ELSE (i = Len(text) - 1 \/ text[i + 2] \in {Space, Period, Comma})
                        => (inDialog' = FALSE /\ buffer' = <<>>)
           /\ text[i + 1] = StraightSingle =>
                /\ inDialog' = inDialog
                /\ buffer' = Append(buffer, StraightSingle)
                /\ result' = result]_vars

\* the scan has passed a straight single quote in narration without opening,
\* and then a straight double quote, which did open
C11_Witness ==
    /\ cpc = "loop" /\ i = 2 /\ ~startInDialogue
    /\ text[1] = StraightSingle /\ text[2] = StraightDouble
    /\ inDialog /\ buffer = <<StraightDouble>>
    /\ result = <<Span(NonDialogueClass, <<StraightSingle>>)>>

\* C12 (totality, empty input): a call that has not returned can always take
\* its next step, whatever the chunk and the flag; the empty chunk returns no
\* span and the incoming flag; and the flag returned is the mode the scan was
\* in when the loop ended.
C12_Total ==
    /\ [](cpc = "loop" => ENABLED NextClassify)
    /\ []((cpc = "done" /\ text = <<>>) => (result = <<>> /\ inDialog = startInDialogue))
    /\ [][(cpc = "loop" /\ cpc' = "done") => inDialog' = inDialog]_vars

\* the call has returned for the empty chunk entered in dialogue mode
C12_Witness ==
    cpc = "done" /\ text = <<>> /\ startInDialogue /\ inDialog /\ result = <<>>

\* C19 (shape of spans): no non-dialogue span holds an open glyph; a dialogue
\* span begins with an open glyph unless it is the first span of a call
\* entered in dialogue mode; a dialogue span that is not the last span ends
\* with a close glyph.
C19_SpanShape ==
    cpc = "done" =>
        \A k \in DOMAIN result :
            LET t == result[k].text IN
            IF result[k].className = NonDialogueClass
            THEN \A j \in DOMAIN t : t[j] \notin {StraightDouble, LeftDouble, LeftSingle}
            ELSE /\ (k > 1 \/ ~startInDialogue) =>
                        t[1] \in {StraightDouble, LeftDouble, LeftSingle}
                 /\ k < Len(result) =>
                        t[Len(t)] \in {StraightDouble, RightDouble, RightSingle}

\* a call has returned narration, a closed quotation, narration
C19_Witness ==
    /\ cpc = "done" /\ ~startInDialogue /\ Len(result) = 3
    /\ result[2].className = DialogueClass /\ Len(result[2].text) = 2

----------------------------------------------------------------------------
(* Specification SpecStatic: render passes of highlightDialog over one     *)
(* element, for every element of at most MaxLeaves text leaves holding at  *)
(* most MaxTextLen characters in all.                                      *)

MaxLeaves  == 2
MaxTextLen == 3

\* one character of each kind the classifier tells apart: open and close,
\* open only, close only, boundary, other
StaticAlphabet == {StraightDouble, LeftDouble, RightDouble, Space, Letter}

\* the ways to cut t into n consecutive pieces (empty pieces included)
Cuts(t, n) ==
    {c \in [0..n -> 0..Len(t)] :
        /\ c[0] = 0 /\ c[n] = Len(t)
        /\ \A k \in 1..n : c[k - 1] <= c[k]}

\* the element t cut by c into n leaves, leaf k with a parent iff par[k]
ElementOf(t, n, c, par) ==
    [k \in 1..n |-> <<TextNode(Slice(t, c[k - 1], c[k]), par[k], "")>>]

InitStatic ==
    /\ \/ \E t \in SeqUpTo(StaticAlphabet, MaxTextLen), n \in 0..MaxLeaves :
            \E c \in Cuts(t, n), par \in [1..n -> BOOLEAN] :
                element = ElementOf(t, n, c, par)
       \/ \E par \in BOOLEAN : element = <<<<TextNode(ObjectString, par, "")>>>>
    /\ textNodes = <<>> /\ nodeIdx = 0 /\ hlInDialog = FALSE
    /\ calls = <<>> /\ prevSpans = <<>> /\ pass = 0
    /\ spc = "idle"
    /\ ClassifyIdle /\ BuildIdle /\ PluginIdle /\ TreeIdle /\ fadeEnabled = TRUE

\* the markdown post processor runs highlightDialog (lines 98-103); the
\* second pass is the one passes are compared by
HighlightStart ==
    /\ spc = "idle"
    /\ pass < 2
    /\ textNodes' = getTextNodes(element)
    /\ element' = [k \in DOMAIN textNodes' |-> <<textNodes'[k]>>]
    /\ hlInDialog' = FALSE
    /\ nodeIdx' = 0
    /\ prevSpans' = PassSpans(calls)
    /\ calls' = <<>>
    /\ spc' = "forEach"
    /\ UNCHANGED pass
    /\ UNCHANGED <<classifyVars, buildVars, fadeEnabled, pluginVars, treeVars>>

\* one iteration of textNodes.forEach (lines 105-116)
ForEachNode ==
    /\ spc = "forEach"
    /\ nodeIdx < Len(textNodes)
    /\ LET node == textNodes[nodeIdx + 1]
           r    == forEachBody(node, hlInDialog)
       IN /\ hlInDialog' = r.inDialog
          /\ calls' = Append(calls, [node |-> node, inDialog |-> hlInDialog,
                                     spans |-> r.spans, replaced |-> r.replaced])
          /\ element' = IF r.replaced
                        THEN [element EXCEPT ![nodeIdx + 1] = createWrapper(r.spans)]
                        ELSE element
    /\ nodeIdx' = nodeIdx + 1
    /\ UNCHANGED <<textNodes, prevSpans, pass, spc>>
    /\ UNCHANGED <<classifyVars, buildVars, fadeEnabled, pluginVars, treeVars>>

\* forEach is through: highlightDialog returns
HighlightEnd ==
    /\ spc = "forEach"
    /\ nodeIdx >= Len(textNodes)
    /\ pass' = pass + 1
    /\ spc' = "idle"
    /\ UNCHANGED <<element, textNodes, nodeIdx, hlInDialog, calls, prevSpans>>
    /\ UNCHANGED <<classifyVars, buildVars, fadeEnabled, pluginVars, treeVars>>

NextStatic == HighlightStart \/ ForEachNode \/ HighlightEnd

SpecStatic == InitStatic /\ [][NextStatic]_vars

\* the flag a leaf hands on: the classifier's outgoing flag for its text
OutFlag(call) == processTextForDialogue(call.node.nodeValue, call.inDialog).inDialog

\* C8 (flag threading): within a pass the first leaf is classified with flag
\* false and leaf k+1 with the outgoing flag of leaf k; a leaf without a parent
\* is left in place, the flag is advanced all the same, and the pass goes on to
\* classify every collected leaf.
C8_FlagThreading ==
    /\ \A k \in DOMAIN calls :
          /\ calls[k].node = textNodes[k]
          /\ calls[k].inDialog = IF k = 1 THEN FALSE ELSE OutFlag(calls[k - 1])
          /\ ~calls[k].node.parentNode =>
                ~calls[k].replaced /\ element[k] = <<calls[k].node>>
    /\ spc = "forEach" =>
          /\ Len(calls) = nodeIdx
          /\ hlInDialog = IF nodeIdx = 0 THEN FALSE ELSE OutFlag(calls[nodeIdx])
    /\ (spc = "idle" /\ pass > 0) => Len(calls) = Len(textNodes)

\* a pass is through whose first leaf had no parent and opened a quotation,
\* and whose second leaf was classified in dialogue mode
C8_Witness ==
    /\ spc = "idle" /\ pass = 1 /\ Len(calls) = 2
    /\ ~calls[1].node.parentNode /\ calls[1].spans /= <<>>
    /\ calls[2].inDialog /\ calls[2].replaced

\* C9 (idempotence): the second of two passes over the same content yields the
\* span sequence of the first; each leaf the first pass made out of a span is
\* classified as that one span again, with the same text and the same class.
C9_Idempotence ==
    (spc = "idle" /\ pass = 2) =>
        /\ PassSpans(calls) = prevSpans
        /\ \A k \in DOMAIN calls :
              calls[k].node.className /= "" =>
                  calls[k].spans = <<Span(calls[k].node.className, calls[k].node.nodeValue)>>

\* two passes are through, and the first cut one leaf into a closed quotation
\* and the narration after it
C9_Witness ==
    /\ spc = "idle" /\ pass = 2 /\ Len(prevSpans) >= 2
    /\ Len(calls) >= 2
    /\ calls[1].node.className = DialogueClass
    /\ calls[2].node.className = NonDialogueClass

\* C10 as claimed: a leaf classified as a single span is not replaced
C10_SingleSpanKept ==
    \A k \in DOMAIN calls : Len(calls[k].spans) = 1 => ~calls[k].replaced

\* C10 as amended: a leaf is replaced exactly when it has a parent and its
\* text differs from the joined string conversions of the returned span
\* elements, that is when its text is neither empty nor the text
\* "[object HTMLSpanElement]"; a single-span leaf is replaced like any other.
C10_ReplacedUnlessEmpty ==
    \A k \in DOMAIN calls :
        calls[k].replaced <=>
            /\ calls[k].node.parentNode
            /\ calls[k].node.nodeValue /= <<>>
            /\ calls[k].node.nodeValue /= ObjectString

\* a leaf of plain narration, classified as one span with flag false, was replaced
C10_Witness ==
    \E k \in DOMAIN calls :
        /\ calls[k].replaced /\ ~calls[k].inDialog
        /\ calls[k].spans = <<Span(NonDialogueClass, calls[k].node.nodeValue)>>
        /\ element[k] = <<TextNode(calls[k].node.nodeValue, TRUE, NonDialogueClass)>>

----------------------------------------------------------------------------
(* Specification SpecRender: the markdown post processor with the setting  *)
(* on or off, over the elements of SpecStatic whose leaves all have a      *)
(* parent; the setting may be flipped between render passes.               *)

InitRender ==
    /\ \E t \in SeqUpTo(StaticAlphabet, MaxTextLen), n \in 1..MaxLeaves :
            \E c \in Cuts(t, n) :
                element = ElementOf(t, n, c, [k \in 1..n |-> TRUE])
    /\ textNodes = <<>> /\ nodeIdx = 0 /\ hlInDialog = FALSE
    /\ calls = <<>> /\ prevSpans = <<>> /\ pass = 0
    /\ spc = "idle"
    /\ fadeEnabled \in BOOLEAN
    /\ ClassifyIdle /\ BuildIdle /\ PluginIdle /\ TreeIdle

\* faulty variant: the post processor runs highlightDialog whatever the setting
PostProcessor_NoGate == HighlightStart

\* the callback of registerMarkdownPostProcessor (lines 70-74); pass counts
\* the render passes, skipped ones included
PostProcessor ==
    \/ fadeEnabled /\ HighlightStart
    \/ /\ ~fadeEnabled
       /\ spc = "idle"
       /\ pass < 2
       /\ pass' = pass + 1
       /\ UNCHANGED <<element, textNodes, nodeIdx, hlInDialog, calls, prevSpans, spc>>
       /\ UNCHANGED <<classifyVars, buildVars, fadeEnabled, pluginVars, treeVars>>

\* toggleFadeOut (lines 91-96), between two render passes
toggleFadeOut ==
    /\ spc = "idle"
    /\ fadeEnabled' = ~fadeEnabled
    /\ UNCHANGED <<classifyVars, staticVars, buildVars, pluginVars, treeVars>>

NextRender == PostProcessor \/ ForEachNode \/ HighlightEnd \/ toggleFadeOut

SpecRender == InitRender /\ [][NextRender]_vars

\* C13 (static driver gated by the setting): a step taken between passes while
\* fadeEnabled is false starts no pass, classifies no leaf and leaves the
\* element as it is; and the leaves of the element change only inside a pass,
\* which runs with fadeEnabled true.
C13_GatedBySetting ==
    /\ [][(spc = "idle" /\ ~fadeEnabled)
            => /\ spc' = "idle"
               /\ element' = element
               /\ textNodes' = textNodes
               /\ calls' = calls]_vars
    /\ [][getTextNodes(element') /= getTextNodes(element)
            => (fadeEnabled /\ spc = "forEach")]_vars

\* a render pass has run with the setting off over a quoted leaf: nothing was
\* classified and the leaf is still the plain text leaf
C13_Witness ==
    /\ spc = "idle" /\ ~fadeEnabled /\ pass = 1 /\ calls = <<>>
    /\ element = <<<<TextNode(<<StraightDouble, Letter, StraightDouble>>, TRUE, "")>>>>

----------------------------------------------------------------------------
(* Specification SpecBuild: one call of buildDecorations, for every        *)
(* document of at most MaxDocLen characters, every ascending list of at    *)
(* most MaxRanges disjoint visible ranges, and both values of fadeEnabled. *)

MaxDocLen == 3
MaxRanges == 2

DocAlphabet == {StraightDouble, LeftDouble, RightDouble, LeftSingle, RightSingle,
                Letter, LineBreak}

\* the visible ranges a view can supply over a document of n characters:
\* ascending, apart from each other
RangeListsOf ==
    [n \in 0..MaxDocLen |->
        {vr \in SeqUpTo([from : 0..n, to : 0..n], MaxRanges) :
            /\ \A k \in DOMAIN vr : vr[k].from <= vr[k].to
            /\ \A k \in 1..(Len(vr) - 1) : vr[k].to < vr[k + 1].from}]

RangeLists(d) == RangeListsOf[Len(d)]

buildState == [builder |-> builder, quoteStack |-> quoteStack,
               bufferStart |-> bufferStart, failed |-> FALSE]

InitBuild ==
    /\ doc \in SeqUpTo(DocAlphabet, MaxDocLen)
    /\ visibleRanges \in RangeLists(doc)
    /\ fadeEnabled \in BOOLEAN
    /\ rangeIdx = 0 /\ pos = 0
    /\ builder = <<>> /\ quoteStack = <<>> /\ bufferStart = 0
    /\ lineAtLog = <<>> /\ decorations = <<>>
    /\ bpc = "start"
    /\ ClassifyIdle /\ StaticIdle /\ PluginIdle /\ TreeIdle

\* faulty variant: the setting is not looked at
BuildStart_IgnoreSetting ==
    /\ bpc = "start"
    /\ builder' = <<>> /\ quoteStack' = <<>> /\ bufferStart' = 0
    /\ bpc' = "ranges"
    /\ UNCHANGED <<doc, visibleRanges, rangeIdx, pos, lineAtLog, decorations>>
    /\ UNCHANGED <<classifyVars, staticVars, fadeEnabled, pluginVars, treeVars>>

\* entry (lines 233-242): Decoration.none when the fade is disabled
BuildStart ==
    /\ bpc = "start"
    /\ IF ~fadeEnabled
       THEN /\ decorations' = <<>>
            /\ bpc' = "done"
            /\ UNCHANGED <<builder, quoteStack, bufferStart>>
       ELSE /\ builder' = <<>> /\ quoteStack' = <<>> /\ bufferStart' = 0
            /\ bpc' = "ranges"
            /\ UNCHANGED decorations
    /\ UNCHANGED <<doc, visibleRanges, rangeIdx, pos, lineAtLog>>
    /\ UNCHANGED <<classifyVars, staticVars, fadeEnabled, pluginVars, treeVars>>

\* the next visible range is taken up (line 244, and pos = from of line 245)
EnterRange ==
    /\ bpc = "ranges"
    /\ rangeIdx < Len(visibleRanges)
    /\ pos' = visibleRanges[rangeIdx + 1].from
    /\ rangeIdx' = rangeIdx + 1
    /\ bpc' = "lines"
    /\ UNCHANGED <<doc, visibleRanges, builder, quoteStack, bufferStart,
                   lineAtLog, decorations>>
    /\ UNCHANGED <<classifyVars, staticVars, fadeEnabled, pluginVars, treeVars>>

\* one line of the range (lines 245-275)
BuildLine ==
    /\ bpc = "lines"
    /\ pos <= visibleRanges[rangeIdx].to
    /\ LET line == lineAt(doc, pos)
           st   == ScanLine(buildState, line)
       IN /\ builder' = st.builder
          /\ quoteStack' = st.quoteStack
          /\ bufferStart' = st.bufferStart
          /\ pos' = IF st.failed THEN pos ELSE line.to + 1
          /\ bpc' = IF st.failed THEN "thrown" ELSE "lines"
    /\ lineAtLog' = Append(lineAtLog, pos)
    /\ UNCHANGED <<doc, visibleRanges, rangeIdx, decorations>>
    /\ UNCHANGED <<classifyVars, staticVars, fadeEnabled, pluginVars, treeVars>>

\* pos is past the range's end: the loop over its lines is left
LeaveRange ==
    /\ bpc = "lines"
    /\ pos > visibleRanges[rangeIdx].to
    /\ bpc' = "ranges"
    /\ UNCHANGED <<doc, visibleRanges, rangeIdx, pos, builder, quoteStack,
                   bufferStart, lineAtLog, decorations>>
    /\ UNCHANGED <<classifyVars, staticVars, fadeEnabled, pluginVars, treeVars>>

\* all ranges are walked: return Decoration.set(builder, true) (line 279)
BuildReturn ==
    /\ bpc = "ranges"
    /\ rangeIdx >= Len(visibleRanges)
    /\ decorations' = SortRanges(builder)
    /\ bpc' = "done"
    /\ UNCHANGED <<doc, visibleRanges, rangeIdx, pos, builder, quoteStack,
                   bufferStart, lineAtLog>>
    /\ UNCHANGED <<classifyVars, staticVars, fadeEnabled, pluginVars, treeVars>>

NextBuild == BuildStart \/ EnterRange \/ BuildLine \/ LeaveRange \/ BuildReturn

SpecBuild == InitBuild /\ [][NextBuild]_vars

\* what one call leaves behind equals the whole-call operator
BuildAgrees ==
    /\ bpc = "done" => decorations = buildDecorations(doc, visibleRanges, fadeEnabled)
    /\ bpc = "thrown" => buildDecorations(doc, visibleRanges, fadeEnabled) = Thrown

\* the offsets lying in a range of class cls among the ranges rs
OffsetsMarked(rs, cls) ==
    {p \in 0..(Len(doc) - 1) :
        \E k \in DOMAIN rs : rs[k].className = cls /\ rs[k].from <= p /\ p < rs[k].to}

RECURSIVE StaticDialogueFrom(_, _, _)
\* the offsets the static-render driver marks as dialogue when it is given the
\* lines of d from offset p on as its text leaves, in order, the flag carried
StaticDialogueFrom(d, p, flag) ==
    IF p > Len(d) THEN {}
    ELSE LET line  == lineAt(d, p)
             r     == processTextForDialogue(line.text, flag)
             start == [k \in DOMAIN r.text |->
                          line.from + Len(Concat(SpanTexts(SubSeq(r.text, 1, k - 1))))]
         IN {q \in line.from..(line.to - 1) :
                \E k \in DOMAIN r.text :
                    /\ r.text[k].className = DialogueClass
                    /\ start[k] <= q /\ q < start[k] + Len(r.text[k].text)}
            \cup StaticDialogueFrom(d, line.to + 1, r.inDialog)

\* C3 as claimed: for a text that is entirely visible the viewport driver marks
\* as dialogue exactly the offsets the static-render driver marks as dialogue.
C3_DriversAgree ==
    (bpc = "done" /\ fadeEnabled /\ visibleRanges = <<[from |-> 0, to |-> Len(doc)]>>)
        => OffsetsMarked(decorations, DialogueClass) = StaticDialogueFrom(doc, 0, FALSE)

\* the visible ranges as half-open intervals: the offsets they hold
VisibleOffsets ==
    {p \in 0..(Len(doc) - 1) :
        \E k \in DOMAIN visibleRanges :
            visibleRanges[k].from <= p /\ p < visibleRanges[k].to}

\* the number of emitted ranges that hold offset p
TimesCovered(p) ==
    Cardinality({k \in DOMAIN decorations :
                    decorations[k].from <= p /\ p < decorations[k].to})

\* C4 as claimed: the emitted ranges cover exactly the offsets of the visible
\* ranges, every such offset lying in exactly one emitted range and no other
\* offset in any.
C4_RangeCoverage ==
    (bpc = "done" /\ fadeEnabled) =>
        \A p \in 0..(Len(doc) - 1) :
            TimesCovered(p) = IF p \in VisibleOffsets THEN 1 ELSE 0

\* C5 (disabled state): a call made while fadeEnabled is false returns no
\* range, reads no line and classifies nothing, whatever the document and the
\* visible ranges are.
C5_DisabledNoRanges ==
    ~fadeEnabled =>
        /\ bpc \in {"start", "done"}
        /\ decorations = <<>>
        /\ builder = <<>> /\ quoteStack = <<>> /\ lineAtLog = <<>>

\* a disabled call has returned for a fully visible document holding a
\* quotation in curly quotes
C5_Witness ==
    /\ bpc = "done" /\ ~fadeEnabled
    /\ doc = <<LeftDouble, Letter, RightDouble>>
    /\ visibleRanges = <<[from |-> 0, to |-> 3]>>

\* the dialogue ranges among the ranges b
DialogueOf(b) == SelectSeq(b, LAMBDA r : r.className = DialogueClass)

\* the glyph pairs of the claim: each open glyph with its positional partner
Partners == {<<StraightDouble, StraightDouble>>, <<LeftDouble, RightDouble>>,
             <<LeftSingle, RightSingle>>}

\* the stack policy as C14 words it, for one glyph at offset here;
\* s = [stack, dialogue]: a close glyph that is the partner of the top of the
\* stack pops it and emits the range; failing that an open glyph pushes;
\* anything else changes nothing
PairedChar(s, glyph, here) ==
    IF s.stack /= <<>> /\ <<s.stack[Len(s.stack)].quote, glyph>> \in Partners
    THEN [stack    |-> SubSeq(s.stack, 1, Len(s.stack) - 1),
          dialogue |-> Append(s.dialogue,
                              MarkRange(DialogueClass, s.stack[Len(s.stack)].pos, here + 1))]
    ELSE IF \E pr \in Partners : pr[1] = glyph
    THEN [s EXCEPT !.stack = Append(s.stack, [quote |-> glyph, pos |-> here])]
    ELSE s

RECURSIVE PairedLine(_, _, _)
PairedLine(s, line, k) ==
    IF k < Len(line.text)
    THEN PairedLine(PairedChar(s, line.text[k + 1], line.from + k), line, k + 1)
    ELSE s

\* C14 (exact pairing): over every line the viewport driver scans, the stack
\* and the dialogue ranges develop as the pairing policy says: an open glyph
\* pushes (glyph, offset), a close glyph that is the partner of the top of the
\* stack pops it and emits the range from the popped offset to one past the
\* close glyph, any other glyph leaves stack and dialogue ranges alone.
C14_ExactPairing ==
    [][(bpc = "lines" /\ pos <= visibleRanges[rangeIdx].to)
        => LET s == PairedLine([stack |-> quoteStack, dialogue |-> DialogueOf(builder)],
                               lineAt(doc, pos), 0)
           IN /\ quoteStack' = s.stack
              /\ DialogueOf(builder') = s.dialogue]_vars

\* C16 (termination of a viewport pass): a pass is on its way to Done or has
\* reached it, and is never ended by an error, whatever the document and the
\* list of visible ranges; the scan position is past every offset a line was
\* asked for before, so it strictly increases from one line to the next; no
\* line is asked for at an offset beyond the document; and the empty document
\* ends with zero ranges.
C16_PassTerminates ==
    /\ bpc /= "thrown"
    /\ (bpc = "lines" /\ lineAtLog /= <<>>) => pos > lineAtLog[Len(lineAtLog)]
    /\ \A k \in DOMAIN lineAtLog : lineAtLog[k] <= Len(doc)
    /\ (bpc = "done" /\ doc = <<>>) => decorations = <<>>

\* how many characters of s are in the set S
CountIn(s, S) == Cardinality({k \in DOMAIN s : s[k] \in S})

RECURSIVE SeenIn(_, _)
\* how many characters in S the scans of the lines asked for at the offsets
\* of log have met (a line scanned twice counts twice)
SeenIn(log, S) ==
    IF log = <<>> THEN 0
    ELSE SeenIn(SubSeq(log, 1, Len(log) - 1), S)
         + CountIn(lineAt(doc, log[Len(log)]).text, S)

\* C17 (straight double quote in the viewport driver): no dialogue range
\* starts or ends at a straight double quote, so a document whose only quote
\* glyph is the straight double quote gets non-dialogue ranges only; every
\* straight double quote scanned is on the stack; and while the pass runs
\* without error the stack holds the straight double quotes seen so far plus
\* the curly openers seen and not paired off by a dialogue range.
C17_StraightDoubleOpensOnly ==
    /\ \A k \in DOMAIN builder :
            builder[k].className = DialogueClass
                => /\ doc[builder[k].from + 1] \in {LeftDouble, LeftSingle}
                   /\ doc[builder[k].to] \in {RightDouble, RightSingle}
    /\ (\A k \in DOMAIN doc : doc[k] \in {StraightDouble, Letter, LineBreak})
            => \A k \in DOMAIN decorations : decorations[k].className = NonDialogueClass
    /\ bpc /= "thrown"
            => /\ CountIn([k \in DOMAIN quoteStack |-> quoteStack[k].quote], {StraightDouble})
                    = SeenIn(lineAtLog, {StraightDouble})
               /\ Len(quoteStack) = SeenIn(lineAtLog, {StraightDouble})
                                    + SeenIn(lineAtLog, {LeftDouble, LeftSingle})
                                    - Len(DialogueOf(builder))

\* the pass is done over the letter a in straight double quotes, all visible:
\* both quotes are on the stack and the one range is the non-dialogue a
C17_Witness ==
    /\ bpc = "done"
    /\ doc = <<StraightDouble, Letter, StraightDouble>>
    /\ visibleRanges = <<[from |-> 0, to |-> 3]>>
    /\ Len(quoteStack) = 2
    /\ decorations = <<MarkRange(NonDialogueClass, 1, 2)>>

----------------------------------------------------------------------------
(* Specification SpecPlugin: the plugin with two editor views open, the    *)
(* toggle command, the settings-tab toggle and the views' updates.         *)

Views == {1, 2}

\* the documents a view shows: narration, a quotation, a quotation after a
\* line of narration
PluginDocs == {<<Letter>>,
               <<LeftDouble, Letter, RightDouble>>,
               <<Letter, LineBreak, LeftDouble, RightDouble>>}

\* a view shows its whole document or, scrolled away, only the first offset
PluginRanges(d) == {<<[from |-> 0, to |-> Len(d)]>>, <<[from |-> 0, to |-> 0]>>}

\* onload and the construction of the views' extensions (lines 65-76, 220-223):
\* the saved settings decide fadeEnabled, toggleChanged is not set (falsy)
InitPlugin ==
    /\ fadeEnabled \in BOOLEAN
    /\ toggleChanged = FALSE
    /\ viewDoc \in [Views -> PluginDocs]
    /\ viewRanges \in [Views -> UNION {PluginRanges(d) : d \in PluginDocs}]
    /\ \A v \in Views : viewRanges[v] \in PluginRanges(viewDoc[v])
    /\ viewDecorations =
          [v \in Views |-> buildDecorations(viewDoc[v], viewRanges[v], fadeEnabled)]
    /\ updatedSinceFlip = [v \in Views |-> TRUE]
    /\ ClassifyIdle /\ StaticIdle /\ BuildIdle /\ TreeIdle

\* the command 'toggle-dialogue-mode' with toggleFadeOut (lines 81-96)
ToggleCommand ==
    /\ toggleChanged' = TRUE
    /\ fadeEnabled' = ~fadeEnabled
    /\ updatedSinceFlip' = [v \in Views |-> FALSE]
    /\ UNCHANGED <<viewDoc, viewRanges, viewDecorations>>
    /\ UNCHANGED <<classifyVars, staticVars, buildVars, treeVars>>

\* the settings tab's 'Enable fade effect' toggle is switched (lines 302-305)
SettingsToggle ==
    /\ \E value \in BOOLEAN :
          /\ value /= fadeEnabled
          /\ fadeEnabled' = value
    /\ updatedSinceFlip' = [v \in Views |-> FALSE]
    /\ UNCHANGED <<toggleChanged, viewDoc, viewRanges, viewDecorations>>
    /\ UNCHANGED <<classifyVars, staticVars, buildVars, treeVars>>

\* DialogueEditorExtension.update of view v (lines 225-231); the update brings
\* the view's document d and visible ranges vr, changed or not
Update(v) ==
    /\ \E d \in PluginDocs :
       \E vr \in PluginRanges(d) :
          LET docChanged      == d /= viewDoc[v]
              viewportChanged == vr /= viewRanges[v]
          IN /\ viewDoc' = [viewDoc EXCEPT ![v] = d]
             /\ viewRanges' = [viewRanges EXCEPT ![v] = vr]
             /\ IF docChanged \/ viewportChanged \/ toggleChanged
                THEN /\ viewDecorations' = [viewDecorations EXCEPT
                                               ![v] = buildDecorations(d, vr, fadeEnabled)]
                     /\ toggleChanged' = FALSE
                ELSE UNCHANGED <<viewDecorations, toggleChanged>>
    /\ updatedSinceFlip' = [updatedSinceFlip EXCEPT ![v] = TRUE]
    /\ UNCHANGED fadeEnabled
    /\ UNCHANGED <<classifyVars, staticVars, buildVars, treeVars>>

NextPlugin == ToggleCommand \/ SettingsToggle \/ (\E v \in Views : Update(v))

SpecPlugin == InitPlugin /\ [][NextPlugin]_vars

\* C6 as claimed: once a view has had an update since fadeEnabled was last
\* flipped, by the command or by the settings tab, its style ranges are those
\* of the current setting: none when fadeEnabled is false, the freshly built
\* ones when it is true.
C6_RerunOnToggle ==
    \A v \in Views :
        updatedSinceFlip[v] =>
            viewDecorations[v] = buildDecorations(viewDoc[v], viewRanges[v], fadeEnabled)

----------------------------------------------------------------------------
(* Specification SpecToggle: the plugin with two editor views open, where  *)
(* fadeEnabled is flipped by the toggle command only.                      *)

NextToggle == ToggleCommand \/ (\E v \in Views : Update(v))

SpecToggle == InitPlugin /\ [][NextToggle]_vars

\* C18 (toggle with several editor views): the first update a view gets after
\* a toggle command, bringing no document and no viewport change, leaves the
\* view with the style ranges of the current fadeEnabled value, whichever of
\* the two views is updated first.
C18_EveryViewRecomputes ==
    [][\A v \in Views :
          (/\ ~updatedSinceFlip[v] /\ updatedSinceFlip'[v]
           /\ viewDoc' = viewDoc /\ viewRanges' = viewRanges)
            => viewDecorations'[v]
                  = buildDecorations(viewDoc[v], viewRanges[v], fadeEnabled')]_vars

----------------------------------------------------------------------------
(* Specification SpecTree: one call of getTextNodes, for every tree of at  *)
(* most MaxNodes nodes under the element.  Node 1 is the element; a tree   *)
(* gives each node its parent and whether it is a text node; the children  *)
(* of a node stand left to right by ascending number.                      *)

MaxNodes == 5

\* the trees of n nodes: a parent is an earlier node and is not a text node
TreesOf(n) ==
    {t \in [parent : [1..n -> 0..(n - 1)], isText : [1..n -> BOOLEAN]] :
        /\ t.parent[1] = 0 /\ ~t.isText[1]
        /\ \A k \in 2..n : /\ t.parent[k] \in 1..(k - 1)
                           /\ ~t.isText[t.parent[k]]}

\* the elements of the set of numbers S, ascending
Ascending(S) ==
    [j \in 1..Cardinality(S) |-> CHOOSE c \in S : Cardinality({x \in S : x <= c}) = j]

\* Array.from(currentNode.childNodes)
childNodes(t, k) == Ascending({c \in DOMAIN t.parent : t.parent[c] = k})

\* faulty variant: the children are put at the back of nodesToVisit
Visit_PushBack(t, st) ==
    LET currentNode == Head(st.nodesToVisit)
        rest        == Tail(st.nodesToVisit)
    IN IF t.isText[currentNode]
       THEN [nodesToVisit |-> rest, textNodes |-> Append(st.textNodes, currentNode)]
       ELSE [nodesToVisit |-> rest \o childNodes(t, currentNode),
             textNodes    |-> st.textNodes]

\* one iteration of the while loop (lines 189-196);
\* st = [nodesToVisit, textNodes]
Visit(t, st) ==
    LET currentNode == Head(st.nodesToVisit)
        rest        == Tail(st.nodesToVisit)
    IN IF t.isText[currentNode]
       THEN [nodesToVisit |-> rest, textNodes |-> Append(st.textNodes, currentNode)]
       ELSE [nodesToVisit |-> childNodes(t, currentNode) \o rest,
             textNodes    |-> st.textNodes]

InitTree ==
    /\ \E n \in 1..MaxNodes : dom \in TreesOf(n)
    /\ nodesToVisit = <<>> /\ foundNodes = <<>>
    /\ tpc = "start"
    /\ fadeEnabled = TRUE
    /\ ClassifyIdle /\ StaticIdle /\ BuildIdle /\ PluginIdle

\* entry (lines 185-186): textNodes = [], nodesToVisit = [element]
GetStart ==
    /\ tpc = "start"
    /\ nodesToVisit' = <<1>>
    /\ foundNodes' = <<>>
    /\ tpc' = "while"
    /\ UNCHANGED dom
    /\ UNCHANGED <<classifyVars, staticVars, buildVars, fadeEnabled, pluginVars>>

\* while (nodesToVisit.length > 0): one iteration
WhileStep ==
    /\ tpc = "while"
    /\ Len(nodesToVisit) > 0
    /\ LET st == Visit(dom, [nodesToVisit |-> nodesToVisit, textNodes |-> foundNodes])
       IN /\ nodesToVisit' = st.nodesToVisit
          /\ foundNodes' = st.textNodes
    /\ UNCHANGED <<dom, tpc>>
    /\ UNCHANGED <<classifyVars, staticVars, buildVars, fadeEnabled, pluginVars>>

\* return textNodes (line 198)
GetReturn ==
    /\ tpc = "while"
    /\ Len(nodesToVisit) = 0
    /\ tpc' = "done"
    /\ UNCHANGED <<dom, nodesToVisit, foundNodes>>
    /\ UNCHANGED <<classifyVars, staticVars, buildVars, fadeEnabled, pluginVars>>

NextTree == GetStart \/ WhileStep \/ GetReturn

SpecTree == InitTree /\ [][NextTree]_vars

RECURSIVE PreOrder(_, _)
RECURSIVE PreOrderAll(_, _)
\* document order of the subtree at node k: the node, then its children's
\* subtrees from left to right
PreOrder(t, k) == <<k>> \o PreOrderAll(t, childNodes(t, k))

PreOrderAll(t, ks) ==
    IF ks = <<>> THEN <<>>
    ELSE PreOrder(t, Head(ks)) \o PreOrderAll(t, Tail(ks))

\* C15 (document order of leaves): the call returns every text node of the
\* tree, each exactly once, in document (pre-order, left-to-right) order.
C15_DocumentOrder ==
    tpc = "done" =>
        /\ foundNodes = SelectSeq(PreOrder(dom, 1), LAMBDA k : dom.isText[k])
        /\ Range(foundNodes) = {k \in DOMAIN dom.isText : dom.isText[k]}
        /\ Cardinality(Range(foundNodes)) = Len(foundNodes)

\* the call has returned for a tree where a text node inside a nested element
\* (node 4, under element 2) comes before a later sibling of that element
\* (text node 3)
C15_Witness ==
    /\ tpc = "done"
    /\ dom.parent = <<0, 1, 1, 2>>
    /\ dom.isText = <<FALSE, FALSE, TRUE, TRUE>>
    /\ foundNodes = <<4, 3>>

====
